---- MODULE Spec2Model ----
(***************************************************************************)
(* Das Grid: the generic 2D grid container of src/src/grid.rs, modelled as *)
(* a state machine.  The state is one Grid object (frame_size,             *)
(* default_value, cells) together with a record of the last call made on   *)
(* it (its arguments, its result and the grid it was made on).             *)
(*                                                                         *)
(* Rust values are represented as follows:                                 *)
(*   Vec<T>            a sequence; Rust index i is TLA+ index i + 1        *)
(*   (i32, i32)        a pair <<a, b>>                                     *)
(*   Result<T>         [ok, err, ret]: Ok(v) has ret = <<v>> (<<>> for     *)
(*                     the unit value), Err(e) has err = e, and a panic    *)
(*                     has err = "panic"                                   *)
(*   &mut T into cells the index of the cell                               *)
(***************************************************************************)
EXTENDS Integers, Sequences, FiniteSets, TLC

\* ------------------------------------------------------------------ bounds
\* Grids have at most MaxCells cells (RulesMaxCells where rule lists are
\* enumerated too), dimensions go down to -NegDim, cell values are
\* 0 .. MaxVal and rule lists have at most MaxRules rules.  Where sub-grids
\* and regions are enumerated, grids, sub-grids and regions have at most
\* SubMaxCells cells.
MaxCells == 4
RulesMaxCells == 2
SubMaxCells == 2
NegDim == 1
MaxVal == 1
MaxRules == 2

\* The frame sizes passed to the constructors: every (rows, cols) whose
\* product is at most n, zero and negative dimensions included.
DimsUpTo(n) ==
  {d \in ((0 - NegDim) .. n) \X ((0 - NegDim) .. n) : d[1] * d[2] <= n}

Values == 0 .. MaxVal

\* The vectors passed to new_from_vector: up to one element more than n.
VectorsUpTo(n) == UNION {[1 .. k -> Values] : k \in 0 .. (n + 1)}

\* The coordinates passed to the calls on g: every coordinate of g and the
\* ring of coordinates one step outside it.
CoordsOf(g) ==
  (-1 .. (IF g.frame_size[2] > 0 THEN g.frame_size[2] ELSE 0))
    \X (-1 .. (IF g.frame_size[1] > 0 THEN g.frame_size[1] ELSE 0))

\* The indexes passed to get_row and get_col on g: -1 up to the larger
\* dimension of g.
IndexesOf(g) ==
  -1 .. (IF g.frame_size[1] > g.frame_size[2]
           THEN (IF g.frame_size[1] > 0 THEN g.frame_size[1] ELSE 0)
         ELSE (IF g.frame_size[2] > 0 THEN g.frame_size[2] ELSE 0))

\* The vector of test_get_row.
RowTestVector == <<1, 2, 3, 4>>

\* --------------------------------------------------------- results, errors
Ok(ret) == [ok |-> TRUE, err |-> "", ret |-> ret]
Err(e) == [ok |-> FALSE, err |-> e, ret |-> <<>>]
Panic == Err("panic")

OutOfGrid == "OutOfGrid"
RuleFailed == "RuleFailed"
ValueNotFound == "ValueNotFound"
SubgridOverflow == "SubgridOverflow"

\* ------------------------------------------------------------- directions
MoveDirection == {"Right", "Left", "Up", "Down"}
\* Variant: Right as the (row, column) offset (0, 1).
MOVE_RIGHT_row_col == <<0, 1>>

MOVE_RIGHT == <<1, 0>>
MOVE_LEFT == <<-1, 0>>
MOVE_UP == <<0, -1>>
MOVE_DOWN == <<0, 1>>

\* ------------------------------------------------------------------- Grid
\* struct Grid<T>; cell_size is metadata that no operation reads.
Grid(frame_size, default_value, cells) ==
  [frame_size |-> frame_size, default_value |-> default_value, cells |-> cells]

\* No grid: before construction, and after a panic.
NoGrid == Grid(<<0, 0>>, 0, <<>>)

\* The sub-grids passed to the stamps: every grid of at most n cells that
\* Grid::new(_, _, 0) followed by calls of set can produce (a grid with
\* negative dimensions has no coordinate that set accepts).
SubGridsUpTo(n) ==
  UNION {{Grid(f, 0, c) :
            c \in {v \in [1 .. (f[1] * f[2]) -> Values] :
                     f[1] < 0 => \A i \in 1 .. (f[1] * f[2]) : v[i] = 0}} :
         f \in {d \in DimsUpTo(n) : d[1] * d[2] > 0}}

SubGrids == SubGridsUpTo(SubMaxCells)

\* Variant: allocates rows * rows cells.
new_square_cells(frame_size, default_value) ==
  LET rows == frame_size[1]
      cols == frame_size[2]
  IN  IF rows * cols = 0 THEN [grid |-> NoGrid, res |-> Panic]
      ELSE IF rows * cols < 0 THEN [grid |-> NoGrid, res |-> Panic]
      ELSE [grid |-> Grid(<<rows, cols>>, default_value,
                          [i \in 1 .. (rows * rows) |-> default_value]),
            res |-> Ok(<<>>)]

\* Grid::new.  A negative product cast to usize is a length no allocation
\* can satisfy: vec! panics with a capacity overflow.
new(frame_size, default_value) ==
  LET rows == frame_size[1]
      cols == frame_size[2]
  IN  IF rows * cols = 0 THEN [grid |-> NoGrid, res |-> Panic]
      ELSE IF rows * cols < 0 THEN [grid |-> NoGrid, res |-> Panic]
      ELSE [grid |-> Grid(<<rows, cols>>, default_value,
                          [i \in 1 .. (rows * cols) |-> default_value]),
            res |-> Ok(<<>>)]

\* Variant: the default value is the last element of the vector.
new_from_vector_last_default(frame_size, vec) ==
  LET n_rows == frame_size[1]
      n_cols == frame_size[2]
  IN  IF Len(vec) % 2 # 0 THEN [grid |-> NoGrid, res |-> Panic]
      ELSE IF Len(vec) = 0 THEN [grid |-> NoGrid, res |-> Panic]
      ELSE IF n_rows * n_cols # Len(vec) THEN [grid |-> NoGrid, res |-> Panic]
      ELSE [grid |-> Grid(<<n_rows, n_cols>>, vec[Len(vec)], vec),
            res |-> Ok(<<>>)]

\* Grid::new_from_vector
new_from_vector(frame_size, vec) ==
  LET rows == frame_size[1]
      cols == frame_size[2]
  IN  IF Len(vec) % 2 # 0 THEN [grid |-> NoGrid, res |-> Panic]
      ELSE IF Len(vec) = 0 THEN [grid |-> NoGrid, res |-> Panic]
      ELSE IF rows * cols # Len(vec) THEN [grid |-> NoGrid, res |-> Panic]
      ELSE [grid |-> Grid(<<rows, cols>>, vec[1], vec), res |-> Ok(<<>>)]

\* Variant: the upper bounds are inclusive.
check_grid_bounds_inclusive(g, dst) ==
  LET rows == g.frame_size[1]
      cols == g.frame_size[2]
      x == dst[1]
      y == dst[2]
  IN  IF x < 0 \/ x > cols THEN Err(OutOfGrid)
      ELSE IF y < 0 \/ y > rows THEN Err(OutOfGrid)
      ELSE Ok(<<>>)

\* Grid::check_grid_bounds
check_grid_bounds(g, dst) ==
  LET rows == g.frame_size[1]
      cols == g.frame_size[2]
      x == dst[1]
      y == dst[2]
  IN  IF x < 0 \/ x >= cols THEN Err(OutOfGrid)
      ELSE IF y < 0 \/ y >= rows THEN Err(OutOfGrid)
      ELSE Ok(<<>>)

\* Grid::get: Ok(&cells[x * rows + y])
get(g, src) ==
  LET rows == g.frame_size[1]
      x == src[1]
      y == src[2]
      idx == x * rows + y
  IN  IF ~check_grid_bounds(g, src).ok THEN check_grid_bounds(g, src)
      ELSE IF idx >= 0 /\ idx < Len(g.cells) THEN Ok(<<g.cells[idx + 1]>>)
      ELSE Err(ValueNotFound)

\* Variant: the index is x * cols + y.
get_mut_cols_index(g, src) ==
  LET n_cols == g.frame_size[2]
      x == src[1]
      y == src[2]
      idx == x * n_cols + y
  IN  IF ~check_grid_bounds(g, src).ok THEN check_grid_bounds(g, src)
      ELSE IF idx >= 0 /\ idx < Len(g.cells) THEN Ok(<<idx>>)
      ELSE Err(ValueNotFound)

\* Grid::get_mut: Ok(the cell's index), the place the reference points to
get_mut(g, src) ==
  LET rows == g.frame_size[1]
      x == src[1]
      y == src[2]
      idx == x * rows + y
  IN  IF ~check_grid_bounds(g, src).ok THEN check_grid_bounds(g, src)
      ELSE IF idx >= 0 /\ idx < Len(g.cells) THEN Ok(<<idx>>)
      ELSE Err(ValueNotFound)

\* Variant: the index is x * cols + y.
set_cols_index(g, dst, value) ==
  LET cols == g.frame_size[2]
      x == dst[1]
      y == dst[2]
      idx == x * cols + y
  IN  IF ~check_grid_bounds(g, dst).ok
        THEN [grid |-> g, res |-> check_grid_bounds(g, dst)]
      ELSE IF idx >= 0 /\ idx < Len(g.cells)
        THEN [grid |-> [g EXCEPT !.cells[idx + 1] = value], res |-> Ok(<<>>)]
      ELSE [grid |-> g, res |-> Ok(<<>>)]

\* Grid::set
set(g, dst, value) ==
  LET rows == g.frame_size[1]
      x == dst[1]
      y == dst[2]
      idx == x * rows + y
  IN  IF ~check_grid_bounds(g, dst).ok
        THEN [grid |-> g, res |-> check_grid_bounds(g, dst)]
      ELSE IF idx >= 0 /\ idx < Len(g.cells)
        THEN [grid |-> [g EXCEPT !.cells[idx + 1] = value], res |-> Ok(<<>>)]
      ELSE [grid |-> g, res |-> Ok(<<>>)]

\* Grid::size, Grid::rows, Grid::cols, Grid::get_flatten_grid
size(g) == Len(g.cells)
rows(g) == g.frame_size[1]
cols(g) == g.frame_size[2]
get_flatten_grid(g) == g.cells

\* ------------------------------------------------------------------ rules
\* Caller-supplied rules, R: Fn((i32, i32), &T) -> Result.  rule_not_1 is the
\* rule of the tests; rule_fail rejects everything; rule_not_origin depends
\* on the coordinate only and fails with an error kind of its own.
Rules == {"rule_not_1", "rule_fail", "rule_not_origin"}

rule(r, pos, value) ==
  CASE r = "rule_not_1" -> IF value = 1 THEN Err(RuleFailed) ELSE Ok(<<>>)
    [] r = "rule_fail" -> Err(RuleFailed)
    [] r = "rule_not_origin" ->
         IF pos = <<0, 0>> THEN Err(ValueNotFound) ELSE Ok(<<>>)

RuleLists == UNION {[1 .. n -> Rules] : n \in 0 .. MaxRules}

\* The rule lists passed where sub-grids are enumerated too.
ShortRuleLists == {r \in RuleLists : Len(r) <= 1}

\* for rule in rules { rule(pos, value)?; }
\* res is the first error (or Ok), calls the rule invocations made, in order.
RECURSIVE apply_rules(_, _, _, _)
apply_rules(rules, pos, value, i) ==
  IF i > Len(rules) THEN [res |-> Ok(<<>>), calls |-> <<>>]
  ELSE LET r == rule(rules[i], pos, value)
           call == <<rules[i], pos, value>>
       IN  IF ~r.ok THEN [res |-> r, calls |-> <<call>>]
           ELSE LET rest == apply_rules(rules, pos, value, i + 1)
                IN  [res |-> rest.res, calls |-> <<call>> \o rest.calls]

\* Variant: the cell is written before the rules are checked.
set_with_rules_set_first(g, dst, value, rules) ==
  LET checked == apply_rules(rules, dst, value, 1)
      written == set(g, dst, value)
  IN  IF ~written.res.ok
        THEN [grid |-> g, res |-> written.res, calls |-> <<>>]
      ELSE [grid |-> written.grid, res |-> checked.res,
            calls |-> checked.calls]

\* Grid::set_with_rules
set_with_rules(g, dst, value, rules) ==
  LET checked == apply_rules(rules, dst, value, 1)
  IN  IF ~checked.res.ok
        THEN [grid |-> g, res |-> checked.res, calls |-> checked.calls]
      ELSE [grid |-> set(g, dst, value).grid, res |-> set(g, dst, value).res,
            calls |-> checked.calls]

\* ------------------------------------------------------------------ moves
\* Variant: the destination is written before the source is reset.
move_cells_dest_first(g, src, dest, prev, ret) ==
  LET s1 == set(g, dest, prev)
      s2 == set(s1.grid, src, g.default_value)
  IN  IF ~s1.res.ok THEN [grid |-> s1.grid, res |-> s1.res]
      ELSE IF ~s2.res.ok THEN [grid |-> s2.grid, res |-> s2.res]
      ELSE [grid |-> s2.grid, res |-> Ok(ret)]

\* self.set(src, &self.default_value.clone())?; self.set(dest, &prev)?;
move_cells(g, src, dest, prev, ret) ==
  LET s1 == set(g, src, g.default_value)
      s2 == set(s1.grid, dest, prev)
  IN  IF ~s1.res.ok THEN [grid |-> s1.grid, res |-> s1.res]
      ELSE IF ~s2.res.ok THEN [grid |-> s2.grid, res |-> s2.res]
      ELSE [grid |-> s2.grid, res |-> Ok(ret)]

\* Variant: the source keeps its value.
mov_copies(g, src, dest) ==
  IF ~check_grid_bounds(g, src).ok
    THEN [grid |-> g, res |-> check_grid_bounds(g, src)]
  ELSE IF ~check_grid_bounds(g, dest).ok
    THEN [grid |-> g, res |-> check_grid_bounds(g, dest)]
  ELSE IF ~get_mut(g, src).ok THEN [grid |-> g, res |-> Panic]
  ELSE [grid |-> set(g, dest, g.cells[get_mut(g, src).ret[1] + 1]).grid,
        res |-> Ok(<<>>)]

\* Grid::mov
mov(g, src, dest) ==
  IF ~check_grid_bounds(g, src).ok
    THEN [grid |-> g, res |-> check_grid_bounds(g, src)]
  ELSE IF ~check_grid_bounds(g, dest).ok
    THEN [grid |-> g, res |-> check_grid_bounds(g, dest)]
  ELSE IF ~get_mut(g, src).ok THEN [grid |-> g, res |-> Panic]
  ELSE move_cells(g, src, dest, g.cells[get_mut(g, src).ret[1] + 1], <<>>)

\* Variant: the rules are checked against the value being moved.
mov_with_rules_moved_value(g, src, dst, rules) ==
  IF ~check_grid_bounds(g, src).ok
    THEN [grid |-> g, res |-> check_grid_bounds(g, src), calls |-> <<>>]
  ELSE IF ~check_grid_bounds(g, dst).ok
    THEN [grid |-> g, res |-> check_grid_bounds(g, dst), calls |-> <<>>]
  ELSE IF ~get_mut(g, src).ok THEN [grid |-> g, res |-> Panic, calls |-> <<>>]
  ELSE
    LET prev == g.cells[get_mut(g, src).ret[1] + 1]
        checked == apply_rules(rules, dst, prev, 1)
        moved == move_cells(g, src, dst, prev, <<>>)
    IN  IF ~checked.res.ok
          THEN [grid |-> g, res |-> checked.res, calls |-> checked.calls]
        ELSE [grid |-> moved.grid, res |-> moved.res, calls |-> checked.calls]

\* Grid::mov_with_rules
mov_with_rules(g, src, dst, rules) ==
  IF ~check_grid_bounds(g, src).ok
    THEN [grid |-> g, res |-> check_grid_bounds(g, src), calls |-> <<>>]
  ELSE IF ~check_grid_bounds(g, dst).ok
    THEN [grid |-> g, res |-> check_grid_bounds(g, dst), calls |-> <<>>]
  ELSE IF ~get_mut(g, src).ok THEN [grid |-> g, res |-> Panic, calls |-> <<>>]
  ELSE IF ~get(g, dst).ok THEN [grid |-> g, res |-> get(g, dst), calls |-> <<>>]
  ELSE
    LET prev == g.cells[get_mut(g, src).ret[1] + 1]
        destv == get(g, dst).ret[1]
        checked == apply_rules(rules, dst, destv, 1)
        moved == move_cells(g, src, dst, prev, <<>>)
    IN  IF ~checked.res.ok
          THEN [grid |-> g, res |-> checked.res, calls |-> checked.calls]
        ELSE [grid |-> moved.grid, res |-> moved.res, calls |-> checked.calls]

\* Variant: the offsets of Right and Down are exchanged.
direction_offset_exchanged(dst_direction) ==
  CASE dst_direction = "Up" -> MOVE_UP
    [] dst_direction = "Down" -> MOVE_RIGHT
    [] dst_direction = "Left" -> MOVE_LEFT
    [] dst_direction = "Right" -> MOVE_DOWN

\* match dst_direction { ... }
direction_offset(dst_direction) ==
  CASE dst_direction = "Up" -> MOVE_UP
    [] dst_direction = "Down" -> MOVE_DOWN
    [] dst_direction = "Left" -> MOVE_LEFT
    [] dst_direction = "Right" -> MOVE_RIGHT

\* Variant: the destination is checked only when it is written, after the
\* source has been reset.
mov_to_late_check(g, src, dst_direction) ==
  LET x == src[1]
      y == src[2]
      xx == direction_offset(dst_direction)[1]
      yy == direction_offset(dst_direction)[2]
      dest == <<x + xx, y + yy>>
  IN  IF ~check_grid_bounds(g, src).ok
        THEN [grid |-> g, res |-> check_grid_bounds(g, src)]
      ELSE IF ~get_mut(g, src).ok THEN [grid |-> g, res |-> get_mut(g, src)]
      ELSE move_cells(g, src, dest, g.cells[get_mut(g, src).ret[1] + 1],
                      <<dest>>)

\* Grid::mov_to
mov_to(g, src, dst_direction) ==
  LET x == src[1]
      y == src[2]
      xx == direction_offset(dst_direction)[1]
      yy == direction_offset(dst_direction)[2]
      dest == <<x + xx, y + yy>>
  IN  IF ~check_grid_bounds(g, src).ok
        THEN [grid |-> g, res |-> check_grid_bounds(g, src)]
      ELSE IF ~check_grid_bounds(g, dest).ok
        THEN [grid |-> g, res |-> check_grid_bounds(g, dest)]
      ELSE IF ~get_mut(g, src).ok THEN [grid |-> g, res |-> get_mut(g, src)]
      ELSE move_cells(g, src, dest, g.cells[get_mut(g, src).ret[1] + 1],
                      <<dest>>)

\* Grid::mov_to_with_rules
mov_to_with_rules(g, src, dst_direction, rules) ==
  LET x == src[1]
      y == src[2]
      xx == direction_offset(dst_direction)[1]
      yy == direction_offset(dst_direction)[2]
      dest == <<x + xx, y + yy>>
  IN  IF ~check_grid_bounds(g, src).ok
        THEN [grid |-> g, res |-> check_grid_bounds(g, src), calls |-> <<>>]
      ELSE IF ~check_grid_bounds(g, dest).ok
        THEN [grid |-> g, res |-> check_grid_bounds(g, dest), calls |-> <<>>]
      ELSE IF ~get(g, dest).ok
        THEN [grid |-> g, res |-> get(g, dest), calls |-> <<>>]
      ELSE
        LET destv == get(g, dest).ret[1]
            checked == apply_rules(rules, dest, destv, 1)
        IN  IF ~checked.res.ok
              THEN [grid |-> g, res |-> checked.res, calls |-> checked.calls]
            ELSE IF ~get_mut(g, src).ok
              THEN [grid |-> g, res |-> Panic, calls |-> checked.calls]
            ELSE
              LET prev == g.cells[get_mut(g, src).ret[1] + 1]
                  moved == move_cells(g, src, dest, prev, <<dest>>)
              IN  [grid |-> moved.grid, res |-> moved.res,
                   calls |-> checked.calls]

\* -------------------------------------------------------------- traversal
\* idx as i32 % rows: the remainder of i32, truncated toward zero, for the
\* non-negative dividend idx.
rem(idx, n) == idx % (IF n < 0 THEN 0 - n ELSE n)

\* The closure of Grid::enumerate, mapped over the cells from index idx on;
\* x and y are the closure's counters when it reaches idx.
RECURSIVE enumerate_from(_, _, _, _)
enumerate_from(g, idx, x, y) ==
  IF idx >= Len(g.cells) THEN <<>>
  ELSE LET wrap == rem(idx, rows(g)) = 0 /\ idx > 1
           nx == IF wrap THEN x + 1 ELSE x
           ny == IF wrap THEN 0 ELSE y
       IN  <<<<nx, ny>>>> \o enumerate_from(g, idx + 1, nx, ny + 1)

\* Grid::enumerate
enumerate(g) == enumerate_from(g, 0, 0, 0)

\* The closure of Grid::enumerate_with_value, likewise; v is &cells[idx].
RECURSIVE enumerate_with_value_from(_, _, _, _)
enumerate_with_value_from(g, idx, x, y) ==
  IF idx >= Len(g.cells) THEN <<>>
  ELSE LET wrap == rem(idx, rows(g)) = 0 /\ idx > 1
           nx == IF wrap THEN x + 1 ELSE x
           ny == IF wrap THEN 0 ELSE y
       IN  <<<<nx, ny, g.cells[idx + 1]>>>>
             \o enumerate_with_value_from(g, idx + 1, nx, ny + 1)

\* Grid::enumerate_with_value
enumerate_with_value(g) == enumerate_with_value_from(g, 0, 0, 0)

\* for idx in 0..n { let v = self.get(at(idx))?; vec_result.push(*v); }
\* coords is the sequence at(0), ..., at(n - 1).
collect(g, coords) ==
  LET failing == {i \in 1 .. Len(coords) : ~get(g, coords[i]).ok}
  IN  IF failing = {}
        THEN Ok(<<[i \in 1 .. Len(coords) |-> get(g, coords[i]).ret[1]]>>)
      ELSE get(g, coords[CHOOSE i \in failing : \A j \in failing : i <= j])

\* Grid::get_col
get_col(g, col_idx) ==
  collect(g, [i \in 1 .. (IF cols(g) > 0 THEN cols(g) ELSE 0) |->
                <<i - 1, col_idx>>])

\* Variant: the row index is the second component of the coordinate.
get_row_second(g, row_idx) ==
  collect(g, [i \in 1 .. (IF rows(g) > 0 THEN rows(g) ELSE 0) |->
                <<i - 1, row_idx>>])

\* Grid::get_row
get_row(g, row_idx) ==
  collect(g, [i \in 1 .. (IF rows(g) > 0 THEN rows(g) ELSE 0) |->
                <<row_idx, i - 1>>])

\* -------------------------------------------------------------- sub-grids
\* Grid::check_grid_overflow
check_grid_overflow(g, sub_grid) ==
  IF cols(sub_grid) > cols(g) THEN Err(SubgridOverflow)
  ELSE IF rows(sub_grid) > rows(g) THEN Err(SubgridOverflow)
  ELSE Ok(<<>>)

\* The loop of stamp_subgrid from the k-th enumerated cell of sub_grid on.
RECURSIVE stamp_cells(_, _, _, _, _)
stamp_cells(g, dst, sub_grid, coords, k) ==
  IF k > Len(coords) THEN g
  ELSE LET x == coords[k][1]
           y == coords[k][2]
           subv == get(sub_grid, <<x, y>>)
           dest == <<dst[2] + y, dst[1] + x>>
       IN  IF subv.ok
             THEN stamp_cells(set(g, dest, subv.ret[1]).grid, dst, sub_grid,
                              coords, k + 1)
           ELSE stamp_cells(g, dst, sub_grid, coords, k + 1)

\* Variant: dst is checked before the size of sub_grid.
stamp_subgrid_bounds_first(g, dst, sub_grid) ==
  IF ~check_grid_bounds(g, dst).ok
    THEN [grid |-> g, res |-> check_grid_bounds(g, dst)]
  ELSE IF ~check_grid_overflow(g, sub_grid).ok
    THEN [grid |-> g, res |-> check_grid_overflow(g, sub_grid)]
  ELSE [grid |-> stamp_cells(g, dst, sub_grid,
                             enumerate_with_value(sub_grid), 1),
        res |-> Ok(<<>>)]

\* Grid::stamp_subgrid
stamp_subgrid(g, dst, sub_grid) ==
  IF ~check_grid_overflow(g, sub_grid).ok
    THEN [grid |-> g, res |-> check_grid_overflow(g, sub_grid)]
  ELSE IF ~check_grid_bounds(g, dst).ok
    THEN [grid |-> g, res |-> check_grid_bounds(g, dst)]
  ELSE [grid |-> stamp_cells(g, dst, sub_grid,
                             enumerate_with_value(sub_grid), 1),
        res |-> Ok(<<>>)]

\* The loop of stamp_subgrid_with_rules from the k-th enumerated cell on;
\* calls are the rule invocations made so far.
RECURSIVE stamp_cells_with_rules(_, _, _, _, _, _, _)
stamp_cells_with_rules(g, dst, sub_grid, rules, coords, k, calls) ==
  IF k > Len(coords) THEN [grid |-> g, res |-> Ok(<<>>), calls |-> calls]
  ELSE LET x == coords[k][1]
           y == coords[k][2]
           subv == get(sub_grid, <<x, y>>)
           dest == <<dst[1] + x, dst[2] + y>>
           destv == get(g, dest)
       IN  IF ~subv.ok
             THEN stamp_cells_with_rules(g, dst, sub_grid, rules, coords,
                                         k + 1, calls)
           ELSE IF ~destv.ok THEN [grid |-> g, res |-> destv, calls |-> calls]
           ELSE
             LET checked == apply_rules(rules, dest, destv.ret[1], 1)
             IN  IF ~checked.res.ok
                   THEN [grid |-> g, res |-> checked.res,
                         calls |-> calls \o checked.calls]
                 ELSE stamp_cells_with_rules(
                        set(g, dest, subv.ret[1]).grid, dst, sub_grid, rules,
                        coords, k + 1, calls \o checked.calls)

\* Variant: a stamp that fails leaves the grid as it was.
stamp_subgrid_with_rules_all_or_nothing(g, dst, sub_grid, rules) ==
  LET r == stamp_cells_with_rules(g, dst, sub_grid, rules,
                                  enumerate_with_value(sub_grid), 1, <<>>)
  IN  IF ~check_grid_overflow(g, sub_grid).ok
        THEN [grid |-> g, res |-> check_grid_overflow(g, sub_grid),
              calls |-> <<>>]
      ELSE IF ~check_grid_bounds(g, dst).ok
        THEN [grid |-> g, res |-> check_grid_bounds(g, dst), calls |-> <<>>]
      ELSE IF ~r.res.ok THEN [r EXCEPT !.grid = g]
      ELSE r

\* Grid::stamp_subgrid_with_rules
stamp_subgrid_with_rules(g, dst, sub_grid, rules) ==
  IF ~check_grid_overflow(g, sub_grid).ok
    THEN [grid |-> g, res |-> check_grid_overflow(g, sub_grid),
          calls |-> <<>>]
  ELSE IF ~check_grid_bounds(g, dst).ok
    THEN [grid |-> g, res |-> check_grid_bounds(g, dst), calls |-> <<>>]
  ELSE stamp_cells_with_rules(g, dst, sub_grid, rules,
                              enumerate_with_value(sub_grid), 1, <<>>)

\* The loop of fill_subgrid from the k-th enumerated cell of the region on.
RECURSIVE fill_cells(_, _, _, _, _)
fill_cells(g, dst, value, coords, k) ==
  IF k > Len(coords) THEN g
  ELSE LET dest == <<dst[1] + coords[k][1], dst[2] + coords[k][2]>>
       IN  fill_cells(set(g, dest, value).grid, dst, value, coords, k + 1)

\* Variant: the grid becomes the region it was asked to fill.
fill_subgrid_becomes_region(g, dst, frame_size, value) ==
  LET made == new(frame_size, g.default_value)
  IN  IF ~check_grid_bounds(g, dst).ok
        THEN [grid |-> g, res |-> check_grid_bounds(g, dst)]
      ELSE IF ~made.res.ok THEN [grid |-> g, res |-> Panic]
      ELSE IF ~check_grid_overflow(g, made.grid).ok
        THEN [grid |-> g, res |-> check_grid_overflow(g, made.grid)]
      ELSE [grid |-> fill_cells(made.grid, <<0, 0>>, value,
                                enumerate(made.grid), 1),
            res |-> Ok(<<made.grid>>)]

\* Grid::fill_subgrid.  Grid::new panics on a region without cells, after
\* dst was checked and before anything is written.
fill_subgrid(g, dst, frame_size, value) ==
  LET made == new(frame_size, g.default_value)
  IN  IF ~check_grid_bounds(g, dst).ok
        THEN [grid |-> g, res |-> check_grid_bounds(g, dst)]
      ELSE IF ~made.res.ok THEN [grid |-> g, res |-> Panic]
      ELSE IF ~check_grid_overflow(g, made.grid).ok
        THEN [grid |-> g, res |-> check_grid_overflow(g, made.grid)]
      ELSE [grid |-> fill_cells(g, dst, value, enumerate(made.grid), 1),
            res |-> Ok(<<made.grid>>)]

\* The loop of get_subgrid from the k-th enumerated cell of sub_grid on.
RECURSIVE copy_cells(_, _, _, _, _)
copy_cells(g, src, sub_grid, coords, k) ==
  IF k > Len(coords) THEN sub_grid
  ELSE LET x == coords[k][1]
           y == coords[k][2]
           subv == get(g, <<src[1] + x, src[2] + y>>)
       IN  IF subv.ok
             THEN copy_cells(g, src, set(sub_grid, <<x, y>>, subv.ret[1]).grid,
                             coords, k + 1)
           ELSE copy_cells(g, src, sub_grid, coords, k + 1)

\* Grid::get_subgrid
get_subgrid(g, src, sub_rows, sub_cols) ==
  LET made == new(<<sub_rows, sub_cols>>, g.default_value)
  IN  IF ~check_grid_bounds(g, src).ok THEN check_grid_bounds(g, src)
      ELSE IF ~made.res.ok THEN Panic
      ELSE IF ~check_grid_overflow(g, made.grid).ok
        THEN check_grid_overflow(g, made.grid)
      ELSE Ok(<<copy_cells(g, src, made.grid, enumerate(made.grid), 1)>>)

\* ------------------------------------------------------------------ state
\* grid: the Grid object.  last: the call in progress, whose result the
\* caller has not consumed yet (op = "none" between two calls), with the grid
\* it was made on (pre).
VARIABLES grid, last

vars == <<grid, last>>

NoCall ==
  [op |-> "none", frame_size |-> <<0, 0>>, vec |-> <<>>, src |-> <<0, 0>>,
   dst |-> <<0, 0>>, dir |-> "", value |-> 0, rules |-> <<>>, calls |-> <<>>,
   idx |-> 0, sub |-> NoGrid, out |-> NoGrid, res |-> Ok(<<>>),
   pre |-> NoGrid]

Init ==
  /\ grid = NoGrid
  /\ last = NoCall

Idle == last.op = "none"
Constructed == grid # NoGrid
Fresh == Idle /\ ~Constructed

New(frame_size, default_value) ==
  /\ ~Constructed
  /\ grid' = new(frame_size, default_value).grid
  /\ last' = [NoCall EXCEPT !.op = "new", !.frame_size = frame_size,
                            !.value = default_value,
                            !.res = new(frame_size, default_value).res]

NewFromVector(frame_size, vec) ==
  /\ ~Constructed
  /\ grid' = new_from_vector(frame_size, vec).grid
  /\ last' = [NoCall EXCEPT !.op = "new_from_vector",
                            !.frame_size = frame_size, !.vec = vec,
                            !.res = new_from_vector(frame_size, vec).res]

Get(src) ==
  /\ Constructed
  /\ grid' = grid
  /\ last' = [NoCall EXCEPT !.op = "get", !.src = src, !.res = get(grid, src),
                            !.pre = grid]

\* let p = grid.get_mut(src)?; *p = value;
GetMutWrite(src, value) ==
  /\ Constructed
  /\ grid' = IF get_mut(grid, src).ok
               THEN [grid EXCEPT !.cells[get_mut(grid, src).ret[1] + 1] = value]
               ELSE grid
  /\ last' = [NoCall EXCEPT !.op = "get_mut", !.src = src, !.value = value,
                            !.res = get_mut(grid, src), !.pre = grid]

Set(dst, value) ==
  /\ Constructed
  /\ grid' = set(grid, dst, value).grid
  /\ last' = [NoCall EXCEPT !.op = "set", !.dst = dst, !.value = value,
                            !.res = set(grid, dst, value).res, !.pre = grid]

SetWithRules(dst, value, rules) ==
  LET r == set_with_rules(grid, dst, value, rules)
  IN  /\ Constructed
      /\ grid' = r.grid
      /\ last' = [NoCall EXCEPT !.op = "set_with_rules", !.dst = dst,
                                !.value = value, !.rules = rules,
                                !.calls = r.calls, !.res = r.res, !.pre = grid]

Mov(src, dest) ==
  LET r == mov(grid, src, dest)
  IN  /\ Constructed
      /\ grid' = r.grid
      /\ last' = [NoCall EXCEPT !.op = "mov", !.src = src, !.dst = dest,
                                !.res = r.res, !.pre = grid]

MovWithRules(src, dst, rules) ==
  LET r == mov_with_rules(grid, src, dst, rules)
  IN  /\ Constructed
      /\ grid' = r.grid
      /\ last' = [NoCall EXCEPT !.op = "mov_with_rules", !.src = src,
                                !.dst = dst, !.rules = rules,
                                !.calls = r.calls, !.res = r.res, !.pre = grid]

MovTo(src, dst_direction) ==
  LET r == mov_to(grid, src, dst_direction)
  IN  /\ Constructed
      /\ grid' = r.grid
      /\ last' = [NoCall EXCEPT !.op = "mov_to", !.src = src,
                                !.dir = dst_direction, !.res = r.res,
                                !.pre = grid]

MovToWithRules(src, dst_direction, rules) ==
  LET r == mov_to_with_rules(grid, src, dst_direction, rules)
  IN  /\ Constructed
      /\ grid' = r.grid
      /\ last' = [NoCall EXCEPT !.op = "mov_to_with_rules", !.src = src,
                                !.dir = dst_direction, !.rules = rules,
                                !.calls = r.calls, !.res = r.res, !.pre = grid]

StampSubgrid(dst, sub_grid) ==
  LET r == stamp_subgrid(grid, dst, sub_grid)
  IN  /\ Constructed
      /\ grid' = r.grid
      /\ last' = [NoCall EXCEPT !.op = "stamp_subgrid", !.dst = dst,
                                !.sub = sub_grid, !.res = r.res, !.pre = grid]

StampSubgridWithRules(dst, sub_grid, rules) ==
  LET r == stamp_subgrid_with_rules(grid, dst, sub_grid, rules)
  IN  /\ Constructed
      /\ grid' = r.grid
      /\ last' = [NoCall EXCEPT !.op = "stamp_subgrid_with_rules",
                                !.dst = dst, !.sub = sub_grid,
                                !.rules = rules, !.calls = r.calls,
                                !.res = r.res, !.pre = grid]

FillSubgrid(dst, frame_size, value) ==
  LET r == fill_subgrid(grid, dst, frame_size, value)
  IN  /\ Constructed
      /\ grid' = r.grid
      /\ last' = [NoCall EXCEPT !.op = "fill_subgrid", !.dst = dst,
                                !.frame_size = frame_size, !.value = value,
                                !.res = r.res, !.pre = grid]

GetSubgrid(src, sub_rows, sub_cols) ==
  /\ Constructed
  /\ grid' = grid
  /\ last' = [NoCall EXCEPT !.op = "get_subgrid", !.src = src,
                            !.frame_size = <<sub_rows, sub_cols>>,
                            !.res = get_subgrid(grid, src, sub_rows, sub_cols),
                            !.pre = grid]

\* let s = grid.get_subgrid(src, rows, cols)?; grid.stamp_subgrid(src, &s)
StampBack ==
  LET s == last.res.ret[1]
      r == stamp_subgrid(grid, last.src, s)
  IN  /\ last.op = "get_subgrid" /\ last.res.ok
      /\ grid' = r.grid
      /\ last' = [NoCall EXCEPT !.op = "stamp_back", !.src = last.src,
                                !.dst = last.src,
                                !.frame_size = last.frame_size, !.sub = s,
                                !.res = r.res, !.pre = grid]

\* let s = grid.get_subgrid(src, rows, cols)?;
\* let mut other = Grid::new((grid.rows(), grid.cols()), _, default_value);
\* other.stamp_subgrid(src, &s)
\* out is the other grid after the stamp.
StampOnto(default_value) ==
  LET s == last.res.ret[1]
      other == new(<<rows(grid), cols(grid)>>, default_value).grid
      r == stamp_subgrid(other, last.src, s)
  IN  /\ last.op = "get_subgrid" /\ last.res.ok
      /\ grid' = grid
      /\ last' = [NoCall EXCEPT !.op = "stamp_onto", !.src = last.src,
                                !.dst = last.src,
                                !.frame_size = last.frame_size, !.sub = s,
                                !.value = default_value, !.out = r.grid,
                                !.res = r.res, !.pre = grid]

Enumerate ==
  /\ Constructed
  /\ grid' = grid
  /\ last' = [NoCall EXCEPT !.op = "enumerate",
                            !.res = Ok(<<enumerate(grid)>>), !.pre = grid]

EnumerateWithValue ==
  /\ Constructed
  /\ grid' = grid
  /\ last' = [NoCall EXCEPT !.op = "enumerate_with_value",
                            !.res = Ok(<<enumerate_with_value(grid)>>),
                            !.pre = grid]

GetRow(row_idx) ==
  /\ Constructed
  /\ grid' = grid
  /\ last' = [NoCall EXCEPT !.op = "get_row", !.idx = row_idx,
                            !.res = get_row(grid, row_idx), !.pre = grid]

GetCol(col_idx) ==
  /\ Constructed
  /\ grid' = grid
  /\ last' = [NoCall EXCEPT !.op = "get_col", !.idx = col_idx,
                            !.res = get_col(grid, col_idx), !.pre = grid]

\* The caller takes the result and goes on to its next call.  A panic ends
\* the program and its grid with it: the program starts over.
Continue ==
  /\ ~Idle
  /\ last' = NoCall
  /\ grid' = IF last.res = Panic THEN NoGrid ELSE grid

\* A call is made only when the previous one has returned (Idle), and a grid
\* is constructed only while there is none (Fresh).
\* Construction, reads and writes of single cells.
NextAccess ==
  \/ Fresh /\ \E f \in DimsUpTo(MaxCells), d \in Values : New(f, d)
  \/ Fresh /\ \E f \in DimsUpTo(MaxCells), v \in VectorsUpTo(MaxCells) :
                NewFromVector(f, v)
  \/ Idle /\ \E p \in CoordsOf(grid) : Get(p)
  \/ Idle /\ \E p \in CoordsOf(grid), v \in Values : GetMutWrite(p, v)
  \/ Idle /\ \E p \in CoordsOf(grid), v \in Values : Set(p, v)
  \/ Continue

SpecAccess == Init /\ [][NextAccess]_vars

\* Construction, set and the moves.
NextMov ==
  \/ Fresh /\ \E f \in DimsUpTo(MaxCells), d \in Values : New(f, d)
  \/ Fresh /\ \E f \in DimsUpTo(MaxCells), v \in VectorsUpTo(MaxCells) :
                NewFromVector(f, v)
  \/ Idle /\ \E p \in CoordsOf(grid), v \in Values : Set(p, v)
  \/ Idle /\ \E s \in CoordsOf(grid), d \in CoordsOf(grid) : Mov(s, d)
  \/ Idle /\ \E s \in CoordsOf(grid), d \in MoveDirection : MovTo(s, d)
  \/ Continue

SpecMov == Init /\ [][NextMov]_vars

\* Construction, set and the calls that take rules.
NextRules ==
  \/ Fresh /\ \E f \in DimsUpTo(RulesMaxCells), d \in Values : New(f, d)
  \/ Fresh /\ \E f \in DimsUpTo(RulesMaxCells),
                 v \in VectorsUpTo(RulesMaxCells) : NewFromVector(f, v)
  \/ Idle /\ \E p \in CoordsOf(grid), v \in Values : Set(p, v)
  \/ Idle /\ \E p \in CoordsOf(grid), v \in Values, r \in RuleLists :
               SetWithRules(p, v, r)
  \/ Idle /\ \E s \in CoordsOf(grid), d \in CoordsOf(grid), r \in RuleLists :
               MovWithRules(s, d, r)
  \/ Idle /\ \E s \in CoordsOf(grid), d \in MoveDirection, r \in RuleLists :
               MovToWithRules(s, d, r)
  \/ Continue

SpecRules == Init /\ [][NextRules]_vars

\* Construction, set, and the reads of whole rows, columns and coordinate
\* lists; the grid of test_get_row is constructed too.
NextRead ==
  \/ Fresh /\ \E f \in DimsUpTo(MaxCells), d \in Values : New(f, d)
  \/ Fresh /\ \E f \in DimsUpTo(MaxCells), v \in VectorsUpTo(MaxCells) :
                NewFromVector(f, v)
  \/ Fresh /\ NewFromVector(<<2, 2>>, RowTestVector)
  \/ Idle /\ \E p \in CoordsOf(grid), v \in Values : Set(p, v)
  \/ Idle /\ Enumerate
  \/ Idle /\ EnumerateWithValue
  \/ Idle /\ \E i \in IndexesOf(grid) : GetRow(i)
  \/ Idle /\ \E i \in IndexesOf(grid) : GetCol(i)
  \/ Continue

SpecRead == Init /\ [][NextRead]_vars

\* Construction, set, and the calls that take a sub-grid or a region.
NextSub ==
  \/ Fresh /\ \E f \in DimsUpTo(SubMaxCells), d \in Values : New(f, d)
  \/ Fresh /\ \E f \in DimsUpTo(SubMaxCells),
                 v \in VectorsUpTo(SubMaxCells) : NewFromVector(f, v)
  \/ Idle /\ \E p \in CoordsOf(grid), v \in Values : Set(p, v)
  \/ Idle /\ \E p \in CoordsOf(grid), s \in SubGrids : StampSubgrid(p, s)
  \/ Idle /\ \E p \in CoordsOf(grid), f \in DimsUpTo(SubMaxCells) :
               GetSubgrid(p, f[1], f[2])
  \/ StampBack
  \/ \E d \in Values : StampOnto(d)
  \/ Idle /\ \E p \in CoordsOf(grid), f \in DimsUpTo(SubMaxCells),
                v \in Values : FillSubgrid(p, f, v)
  \/ Continue

SpecSub == Init /\ [][NextSub]_vars

\* Construction and every call that writes to the grid.
NextWrites ==
  \/ Fresh /\ \E f \in DimsUpTo(SubMaxCells), d \in Values : New(f, d)
  \/ Fresh /\ \E f \in DimsUpTo(SubMaxCells),
                 v \in VectorsUpTo(SubMaxCells) : NewFromVector(f, v)
  \/ Idle /\ \E p \in CoordsOf(grid), v \in Values : Set(p, v)
  \/ Idle /\ \E p \in CoordsOf(grid), v \in Values : GetMutWrite(p, v)
  \/ Idle /\ \E p \in CoordsOf(grid), v \in Values, r \in ShortRuleLists :
               SetWithRules(p, v, r)
  \/ Idle /\ \E s \in CoordsOf(grid), d \in CoordsOf(grid) : Mov(s, d)
  \/ Idle /\ \E s \in CoordsOf(grid), d \in CoordsOf(grid),
                r \in ShortRuleLists : MovWithRules(s, d, r)
  \/ Idle /\ \E s \in CoordsOf(grid), d \in MoveDirection : MovTo(s, d)
  \/ Idle /\ \E s \in CoordsOf(grid), d \in MoveDirection,
                r \in ShortRuleLists : MovToWithRules(s, d, r)
  \/ Idle /\ \E p \in CoordsOf(grid), s \in SubGrids : StampSubgrid(p, s)
  \/ Idle /\ \E p \in CoordsOf(grid), s \in SubGrids, r \in ShortRuleLists :
               StampSubgridWithRules(p, s, r)
  \/ Idle /\ \E p \in CoordsOf(grid), f \in DimsUpTo(SubMaxCells),
                v \in Values : FillSubgrid(p, f, v)
  \/ Continue

SpecWrites == Init /\ [][NextWrites]_vars

\* Construction, set, the moves and get_subgrid: the calls that use the
\* default value.
NextDefault ==
  \/ Fresh /\ \E f \in DimsUpTo(SubMaxCells), d \in Values : New(f, d)
  \/ Fresh /\ \E f \in DimsUpTo(SubMaxCells),
                 v \in VectorsUpTo(SubMaxCells) : NewFromVector(f, v)
  \/ Idle /\ \E p \in CoordsOf(grid), v \in Values : Set(p, v)
  \/ Idle /\ \E s \in CoordsOf(grid), d \in CoordsOf(grid) : Mov(s, d)
  \/ Idle /\ \E s \in CoordsOf(grid), d \in MoveDirection : MovTo(s, d)
  \/ Idle /\ \E p \in CoordsOf(grid), f \in DimsUpTo(SubMaxCells) :
               GetSubgrid(p, f[1], f[2])
  \/ Continue

SpecDefault == Init /\ [][NextDefault]_vars

\* ===================================================== the Grid of lib.rs
\* src/src/lib.rs holds the earlier Grid of the crate: rows, cols,
\* initial_value and cells, with the first component of a coordinate checked
\* against rows and the second against cols.
\* Grids have at most LibMaxRows rows, LibMaxCols columns and LibMaxCells
\* cells.
LibMaxRows == 2
LibMaxCols == 3
LibMaxCells == 6

\* The dimensions passed to the constructors, zero and negative ones
\* included.
LibDims ==
  {d \in ((0 - NegDim) .. LibMaxRows) \X ((0 - NegDim) .. LibMaxCols) :
     d[1] * d[2] <= LibMaxCells}

\* The vectors passed to new_from_vector.
LibVectors == UNION {[1 .. k -> Values] : k \in 0 .. LibMaxCells}

\* The coordinates passed to the calls on g: every coordinate of g and the
\* ring of coordinates one step outside it.
LibCoordsOf(g) ==
  (-1 .. (IF g.rows > 0 THEN g.rows ELSE 0))
    \X (-1 .. (IF g.cols > 0 THEN g.cols ELSE 0))

\* struct Grid<T> of lib.rs
LibGrid(n_rows, n_cols, initial_value, cells) ==
  [rows |-> n_rows, cols |-> n_cols, initial_value |-> initial_value,
   cells |-> cells]

\* No grid: before construction, and after a panic.
LibNoGrid == LibGrid(0, 0, 0, <<>>)

\* Grid::new of lib.rs.  A negative product cast to usize is a length no
\* allocation can satisfy: vec! panics with a capacity overflow.
lib_new(n_rows, n_cols, value) ==
  IF n_rows * n_cols = 0 THEN [grid |-> LibNoGrid, res |-> Panic]
  ELSE IF n_rows * n_cols < 0 THEN [grid |-> LibNoGrid, res |-> Panic]
  ELSE [grid |-> LibGrid(n_rows, n_cols, value,
                         [i \in 1 .. (n_rows * n_cols) |-> value]),
        res |-> Ok(<<>>)]

\* Grid::new_from_vector of lib.rs
lib_new_from_vector(n_rows, n_cols, vec) ==
  IF Len(vec) % 2 # 0 THEN [grid |-> LibNoGrid, res |-> Panic]
  ELSE IF Len(vec) = 0 THEN [grid |-> LibNoGrid, res |-> Panic]
  ELSE IF n_rows * n_cols # Len(vec) THEN [grid |-> LibNoGrid, res |-> Panic]
  ELSE [grid |-> LibGrid(n_rows, n_cols, vec[1], vec), res |-> Ok(<<>>)]

\* Grid::check_grid_bounds of lib.rs
lib_check_grid_bounds(g, index) ==
  LET x == index[1]
      y == index[2]
  IN  IF x < 0 \/ x >= g.rows THEN Err(OutOfGrid)
      ELSE IF y < 0 \/ y >= g.cols THEN Err(OutOfGrid)
      ELSE Ok(<<>>)

\* (x * self.rows + y) as usize, the index into cells that set, get_mut and
\* get of lib.rs compute.
lib_cell_index(g, index) == index[1] * g.rows + index[2]

\* Grid::set of lib.rs: a cell that cells.get_mut does not find is skipped.
lib_set(g, index, value) ==
  IF ~lib_check_grid_bounds(g, index).ok
    THEN [grid |-> g, res |-> lib_check_grid_bounds(g, index)]
  ELSE IF lib_cell_index(g, index) < Len(g.cells)
    THEN [grid |-> [g EXCEPT !.cells[lib_cell_index(g, index) + 1] = value],
          res |-> Ok(<<>>)]
  ELSE [grid |-> g, res |-> Ok(<<>>)]

\* Grid::get_mut of lib.rs; the reference is the index of the cell.  unwrap
\* panics when cells.get_mut does not find the cell.
lib_get_mut(g, index) ==
  IF ~lib_check_grid_bounds(g, index).ok THEN lib_check_grid_bounds(g, index)
  ELSE IF lib_cell_index(g, index) < Len(g.cells)
    THEN Ok(<<lib_cell_index(g, index)>>)
  ELSE Panic

\* Grid::get of lib.rs
lib_get(g, index) ==
  IF ~lib_check_grid_bounds(g, index).ok THEN lib_check_grid_bounds(g, index)
  ELSE IF lib_cell_index(g, index) < Len(g.cells)
    THEN Ok(<<g.cells[lib_cell_index(g, index) + 1]>>)
  ELSE Panic

\* Index<(i32, i32)>::index: self.get(index).unwrap()
lib_index(g, index) ==
  IF lib_get(g, index).ok THEN lib_get(g, index) ELSE Panic

\* IndexMut<(i32, i32)>::index_mut: self.get_mut(index).unwrap()
lib_index_mut(g, index) ==
  IF lib_get_mut(g, index).ok THEN lib_get_mut(g, index) ELSE Panic

\* let prev = *self.get_mut(index).unwrap();
\* self.set(index, &self.initial_value.clone())?; self.set(dest, &prev)?;
lib_move_cells(g, index, dest) ==
  IF ~lib_get_mut(g, index).ok THEN [grid |-> g, res |-> Panic]
  ELSE LET prev == g.cells[lib_get_mut(g, index).ret[1] + 1]
           s1 == lib_set(g, index, g.initial_value)
           s2 == lib_set(s1.grid, dest, prev)
       IN  IF ~s1.res.ok THEN [grid |-> s1.grid, res |-> s1.res]
           ELSE IF ~s2.res.ok THEN [grid |-> s2.grid, res |-> s2.res]
           ELSE [grid |-> s2.grid, res |-> Ok(<<>>)]

\* Grid::mov of lib.rs
lib_mov(g, index, dest) ==
  IF ~lib_check_grid_bounds(g, index).ok
    THEN [grid |-> g, res |-> lib_check_grid_bounds(g, index)]
  ELSE IF ~lib_check_grid_bounds(g, dest).ok
    THEN [grid |-> g, res |-> lib_check_grid_bounds(g, dest)]
  ELSE lib_move_cells(g, index, dest)

\* MOVE_RIGHT, MOVE_LEFT, MOVE_UP and MOVE_DOWN of lib.rs
LIB_MOVE_RIGHT == <<0, 1>>
LIB_MOVE_LEFT == <<0, -1>>
LIB_MOVE_UP == <<-1, 0>>
LIB_MOVE_DOWN == <<1, 0>>

\* Grid::mov_to of lib.rs
lib_mov_to(g, index, direction) ==
  LET offset == CASE direction = "Up" -> LIB_MOVE_UP
                  [] direction = "Down" -> LIB_MOVE_DOWN
                  [] direction = "Left" -> LIB_MOVE_LEFT
                  [] direction = "Right" -> LIB_MOVE_RIGHT
      dest == <<index[1] + offset[1], index[2] + offset[2]>>
  IN  IF ~lib_check_grid_bounds(g, index).ok
        THEN [grid |-> g, res |-> lib_check_grid_bounds(g, index)]
      ELSE IF ~lib_check_grid_bounds(g, dest).ok
        THEN [grid |-> g, res |-> lib_check_grid_bounds(g, dest)]
      ELSE lib_move_cells(g, index, dest)

\* Grid::size, Grid::rows, Grid::cols and Grid::get_flatten_grid of lib.rs
lib_size(g) == Len(g.cells)
lib_rows(g) == g.rows
lib_cols(g) == g.cols
lib_get_flatten_grid(g) == g.cells

\* The closure of Grid::enumerate of lib.rs, mapped over the cells from
\* index idx on; x and y are the closure's counters when it reaches idx.
RECURSIVE lib_enumerate_from(_, _, _, _)
lib_enumerate_from(g, idx, x, y) ==
  IF idx >= Len(g.cells) THEN <<>>
  ELSE LET wrap == rem(idx, lib_rows(g)) = 0 /\ idx > 1
           nx == IF wrap THEN 0 ELSE x
           ny == IF wrap THEN y + 1 ELSE y
       IN  <<<<nx, ny>>>> \o lib_enumerate_from(g, idx + 1, nx + 1, ny)

\* Grid::enumerate of lib.rs
lib_enumerate(g) == lib_enumerate_from(g, 0, 0, 0)

\* Grid::fill_grid
lib_fill_grid(g, value) ==
  [g EXCEPT !.cells = [i \in 1 .. Len(g.cells) |-> value]]

\* ---------------------------------------------------- calls on lib.rs
\* The same two variables hold the Grid of lib.rs and the last call on it.
LibNoCall == [NoCall EXCEPT !.pre = LibNoGrid]

LibInit ==
  /\ grid = LibNoGrid
  /\ last = LibNoCall

LibConstructed == grid # LibNoGrid
LibFresh == Idle /\ ~LibConstructed

LibNew(n_rows, n_cols, value) ==
  /\ ~LibConstructed
  /\ grid' = lib_new(n_rows, n_cols, value).grid
  /\ last' = [LibNoCall EXCEPT !.op = "new", !.frame_size = <<n_rows, n_cols>>,
                               !.value = value,
                               !.res = lib_new(n_rows, n_cols, value).res]

LibNewFromVector(n_rows, n_cols, vec) ==
  /\ ~LibConstructed
  /\ grid' = lib_new_from_vector(n_rows, n_cols, vec).grid
  /\ last' = [LibNoCall EXCEPT
                !.op = "new_from_vector", !.frame_size = <<n_rows, n_cols>>,
                !.vec = vec,
                !.res = lib_new_from_vector(n_rows, n_cols, vec).res]

LibGet(index) ==
  /\ LibConstructed
  /\ grid' = grid
  /\ last' = [LibNoCall EXCEPT !.op = "get", !.src = index,
                               !.res = lib_get(grid, index), !.pre = grid]

\* let p = grid.get_mut(index)?; *p = value;
LibGetMutWrite(index, value) ==
  /\ LibConstructed
  /\ grid' = IF lib_get_mut(grid, index).ok
               THEN [grid EXCEPT
                       !.cells[lib_get_mut(grid, index).ret[1] + 1] = value]
               ELSE grid
  /\ last' = [LibNoCall EXCEPT !.op = "get_mut", !.src = index,
                               !.value = value,
                               !.res = lib_get_mut(grid, index), !.pre = grid]

\* grid[index]
LibIndex(index) ==
  /\ LibConstructed
  /\ grid' = grid
  /\ last' = [LibNoCall EXCEPT !.op = "index", !.src = index,
                               !.res = lib_index(grid, index), !.pre = grid]

\* grid[index] = value;
LibIndexMutWrite(index, value) ==
  /\ LibConstructed
  /\ grid' = IF lib_index_mut(grid, index).ok
               THEN [grid EXCEPT
                       !.cells[lib_index_mut(grid, index).ret[1] + 1] = value]
               ELSE grid
  /\ last' = [LibNoCall EXCEPT !.op = "index_mut", !.src = index,
                               !.value = value,
                               !.res = lib_index_mut(grid, index),
                               !.pre = grid]

LibSet(index, value) ==
  /\ LibConstructed
  /\ grid' = lib_set(grid, index, value).grid
  /\ last' = [LibNoCall EXCEPT !.op = "set", !.dst = index, !.value = value,
                               !.res = lib_set(grid, index, value).res,
                               !.pre = grid]

LibMov(index, dest) ==
  LET r == lib_mov(grid, index, dest)
  IN  /\ LibConstructed
      /\ grid' = r.grid
      /\ last' = [LibNoCall EXCEPT !.op = "mov", !.src = index, !.dst = dest,
                                   !.res = r.res, !.pre = grid]

LibMovTo(index, direction) ==
  LET r == lib_mov_to(grid, index, direction)
  IN  /\ LibConstructed
      /\ grid' = r.grid
      /\ last' = [LibNoCall EXCEPT !.op = "mov_to", !.src = index,
                                   !.dir = direction, !.res = r.res,
                                   !.pre = grid]

LibEnumerate ==
  /\ LibConstructed
  /\ grid' = grid
  /\ last' = [LibNoCall EXCEPT !.op = "enumerate",
                               !.res = Ok(<<lib_enumerate(grid)>>),
                               !.pre = grid]

LibFillGrid(value) ==
  /\ LibConstructed
  /\ grid' = lib_fill_grid(grid, value)
  /\ last' = [LibNoCall EXCEPT !.op = "fill_grid", !.value = value,
                               !.pre = grid]

\* The caller takes the result and goes on to its next call; a panic ends
\* the program and its grid with it.
LibContinue ==
  /\ ~Idle
  /\ last' = LibNoCall
  /\ grid' = IF last.res = Panic THEN LibNoGrid ELSE grid

\* lib.rs: construction, reads and writes of single cells, enumerate.
NextLibAccess ==
  \/ LibFresh /\ \E d \in LibDims, v \in Values : LibNew(d[1], d[2], v)
  \/ LibFresh /\ \E d \in LibDims, v \in LibVectors :
                   LibNewFromVector(d[1], d[2], v)
  \/ Idle /\ \E p \in LibCoordsOf(grid) : LibGet(p)
  \/ Idle /\ \E p \in LibCoordsOf(grid), v \in Values : LibGetMutWrite(p, v)
  \/ Idle /\ \E p \in LibCoordsOf(grid) : LibIndex(p)
  \/ Idle /\ \E p \in LibCoordsOf(grid), v \in Values : LibIndexMutWrite(p, v)
  \/ Idle /\ \E p \in LibCoordsOf(grid), v \in Values : LibSet(p, v)
  \/ Idle /\ LibEnumerate
  \/ LibContinue

SpecLibAccess == LibInit /\ [][NextLibAccess]_vars

\* lib.rs: construction, set, fill_grid and the moves.
NextLibMov ==
  \/ LibFresh /\ \E d \in LibDims, v \in Values : LibNew(d[1], d[2], v)
  \/ LibFresh /\ \E d \in LibDims, v \in LibVectors :
                   LibNewFromVector(d[1], d[2], v)
  \/ Idle /\ \E p \in LibCoordsOf(grid), v \in Values : LibSet(p, v)
  \/ Idle /\ \E v \in Values : LibFillGrid(v)
  \/ Idle /\ \E s \in LibCoordsOf(grid), d \in LibCoordsOf(grid) : LibMov(s, d)
  \/ Idle /\ \E s \in LibCoordsOf(grid), d \in MoveDirection : LibMovTo(s, d)
  \/ LibContinue

SpecLibMov == LibInit /\ [][NextLibMov]_vars

\* ------------------------------------------------------------ properties
\* The coordinate p lies inside the extent of g: 0 <= x < cols, 0 <= y < rows.
InGrid(g, p) ==
  /\ 0 <= p[1] /\ p[1] < g.frame_size[2]
  /\ 0 <= p[2] /\ p[2] < g.frame_size[1]

\* The unit offset of each direction, as documented on MoveDirection.
Offset(d) ==
  CASE d = "Right" -> <<1, 0>>
    [] d = "Left" -> <<-1, 0>>
    [] d = "Up" -> <<0, -1>>
    [] d = "Down" -> <<0, 1>>

Plus(p, q) == <<p[1] + q[1], p[2] + q[2]>>

\* The index of the first rule that rejects (pos, value); 0 when all accept.
FirstFail(rules, pos, value) ==
  LET failing == {i \in 1 .. Len(rules) : ~rule(rules[i], pos, value).ok}
  IN  IF failing = {} THEN 0
      ELSE CHOOSE i \in failing : \A j \in failing : i <= j

\* The coordinate a single-coordinate call was made on.
Target == IF last.op = "set" THEN last.dst ELSE last.src

\* C1: on every grid, set(p, v) at an in-bounds p returns Ok and get(p) then
\* returns v; a value written through the reference of get_mut(p) is what
\* get(p) then returns.
C1_SetThenGet ==
  /\ (last.op = "set" /\ InGrid(last.pre, last.dst)) =>
       /\ last.res = Ok(<<>>)
       /\ get(grid, last.dst) = Ok(<<last.value>>)
  /\ (last.op = "get_mut" /\ InGrid(last.pre, last.src)) =>
       /\ last.res.ok
       /\ get(grid, last.src) = Ok(<<last.value>>)

\* C1 witness: a set on a non-square grid that changed the cell it was made on.
C1_Witness ==
  /\ last.op = "set" /\ InGrid(last.pre, last.dst)
  /\ last.pre.frame_size[1] # last.pre.frame_size[2]
  /\ last.dst[1] > 0
  /\ get(last.pre, last.dst) # Ok(<<last.value>>)

\* C2: get, get_mut and set at a coordinate outside the grid's extent return
\* OutOfGrid, and no cell changes.
C2_OutOfGrid ==
  (last.op \in {"get", "get_mut", "set"} /\ ~InGrid(last.pre, Target)) =>
    /\ last.res = Err(OutOfGrid)
    /\ grid = last.pre

\* C2 witness: a set one column past the last one, with a value the grid's
\* cells do not all hold.
C2_Witness ==
  /\ last.op = "set"
  /\ last.dst[1] = last.pre.frame_size[2]
  /\ InGrid(last.pre, <<0, last.dst[2]>>)
  /\ \E i \in 1 .. Len(last.pre.cells) : last.pre.cells[i] # last.value

\* C3: Grid::new((r, c), _, d) with r, c >= 0 panics when r * c = 0; otherwise
\* the grid has size r * c and every coordinate 0 <= x < c, 0 <= y < r reads d.
C3_New ==
  (last.op = "new" /\ last.frame_size[1] >= 0 /\ last.frame_size[2] >= 0) =>
    LET r == last.frame_size[1]
        c == last.frame_size[2]
    IN  IF r * c = 0 THEN last.res = Panic /\ grid = NoGrid
        ELSE /\ last.res.ok
             /\ size(grid) = r * c
             /\ \A p \in CoordsOf(grid) :
                  (0 <= p[1] /\ p[1] < c /\ 0 <= p[2] /\ p[2] < r) =>
                    get(grid, p) = Ok(<<last.value>>)

\* C3 witness: a non-square grid was constructed with a non-zero default.
C3_Witness ==
  /\ last.op = "new" /\ last.res.ok
  /\ last.frame_size[1] > 0 /\ last.frame_size[1] # last.frame_size[2]
  /\ last.value # 0

\* C4: Grid::new_from_vector((r, c), _, values), for positive r and c, returns
\* a grid whose flattened cells equal values for every non-empty sequence of
\* length r * c, and panics when the length differs from r * c or the
\* sequence is empty.
C4_NewFromVector ==
  (last.op = "new_from_vector"
   /\ last.frame_size[1] > 0 /\ last.frame_size[2] > 0) =>
    IF Len(last.vec) # 0
       /\ Len(last.vec) = last.frame_size[1] * last.frame_size[2]
      THEN last.res.ok /\ get_flatten_grid(grid) = last.vec
      ELSE last.res = Panic

\* C5: mov(src, dst) with both in bounds returns Ok; dst then holds the value
\* formerly at src, src holds the default value when src # dst, every other
\* cell is unchanged, and with src = dst the cell keeps its value.
C5_Mov ==
  (last.op = "mov" /\ InGrid(last.pre, last.src) /\ InGrid(last.pre, last.dst))
  =>
    /\ last.res = Ok(<<>>)
    /\ get(grid, last.dst) = get(last.pre, last.src)
    /\ last.src # last.dst =>
         get(grid, last.src) = Ok(<<last.pre.default_value>>)
    /\ \A p \in CoordsOf(grid) :
         (InGrid(last.pre, p) /\ p # last.src /\ p # last.dst) =>
           get(grid, p) = get(last.pre, p)
    /\ grid.frame_size = last.pre.frame_size
    /\ Len(grid.cells) = Len(last.pre.cells)

\* C5 witness: a mov of a cell onto itself while it holds a non-default value.
C5_Witness ==
  /\ last.op = "mov" /\ InGrid(last.pre, last.src)
  /\ last.src = last.dst
  /\ get(last.pre, last.src) # Ok(<<last.pre.default_value>>)

\* C6: mov and mov_to with the source or the destination out of bounds return
\* OutOfGrid and leave every cell unchanged.
C6_MovOutOfGrid ==
  /\ (last.op = "mov"
      /\ ~(InGrid(last.pre, last.src) /\ InGrid(last.pre, last.dst))) =>
       /\ last.res = Err(OutOfGrid)
       /\ grid = last.pre
  /\ (last.op = "mov_to"
      /\ ~(InGrid(last.pre, last.src)
           /\ InGrid(last.pre, Plus(last.src, Offset(last.dir))))) =>
       /\ last.res = Err(OutOfGrid)
       /\ grid = last.pre

\* C6 witness: a mov_to outward from a grid edge, from a cell that holds a
\* non-default value.
C6_Witness ==
  /\ last.op = "mov_to" /\ InGrid(last.pre, last.src)
  /\ ~InGrid(last.pre, Plus(last.src, Offset(last.dir)))
  /\ get(last.pre, last.src) # Ok(<<last.pre.default_value>>)

ScenarioGrid == Grid(<<2, 2>>, 0, <<0, 1, 0, 0>>)

C9_SetWithRules ==
  last.op = "set_with_rules" =>
    LET k == FirstFail(last.rules, last.dst, last.value)
        plain == set(last.pre, last.dst, last.value)
        n == IF k > 0 THEN k ELSE Len(last.rules)
    IN  /\ last.calls = [i \in 1 .. n |-> <<last.rules[i], last.dst, last.value>>]
        /\ k > 0 =>
             /\ last.res = rule(last.rules[k], last.dst, last.value)
             /\ grid = last.pre
        /\ k = 0 =>
             /\ last.res = plain.res
             /\ grid = plain.grid
        /\ (k > 0 /\ last.rules[k] = "rule_fail") => last.res = Err(RuleFailed)

\* C9 witness: the first of two rules failed, the second would have failed
\* with another error, and the value differs from the one in the target cell.
C9_Witness ==
  /\ last.op = "set_with_rules" /\ Len(last.rules) = 2
  /\ InGrid(last.pre, last.dst)
  /\ ~rule(last.rules[1], last.dst, last.value).ok
  /\ ~rule(last.rules[2], last.dst, last.value).ok
  /\ rule(last.rules[1], last.dst, last.value)
       # rule(last.rules[2], last.dst, last.value)
  /\ get(last.pre, last.dst) # Ok(<<last.value>>)

\* C10: mov_with_rules and mov_to_with_rules, with source and destination in
\* bounds, call the rules on (destination, the destination cell's value before
\* the call); when one fails they return its error and no cell changes; when
\* all pass the result and the grid are those of mov / mov_to.  Out of bounds
\* they are mov / mov_to and call no rule.
C10_MovWithRules ==
  last.op \in {"mov_with_rules", "mov_to_with_rules"} =>
    LET dest == IF last.op = "mov_with_rules" THEN last.dst
                ELSE Plus(last.src, Offset(last.dir))
        plain == IF last.op = "mov_with_rules"
                   THEN mov(last.pre, last.src, dest)
                   ELSE mov_to(last.pre, last.src, last.dir)
    IN  IF ~(InGrid(last.pre, last.src) /\ InGrid(last.pre, dest))
          THEN /\ grid = last.pre
               /\ last.res = plain.res
               /\ last.calls = <<>>
          ELSE
            LET destv == get(last.pre, dest).ret[1]
                k == FirstFail(last.rules, dest, destv)
                n == IF k > 0 THEN k ELSE Len(last.rules)
            IN  /\ last.calls = [i \in 1 .. n |-> <<last.rules[i], dest, destv>>]
                /\ k > 0 =>
                     /\ last.res = rule(last.rules[k], dest, destv)
                     /\ grid = last.pre
                /\ k = 0 =>
                     /\ last.res = plain.res
                     /\ grid = plain.grid

\* C10 witness: a mov_with_rules refused by rule_not_1 because the destination
\* holds 1, while the source holds a value that is neither 1 nor the default.
C10_Witness ==
  /\ last.op = "mov_with_rules" /\ last.rules = <<"rule_not_1">>
  /\ InGrid(last.pre, last.src) /\ InGrid(last.pre, last.dst)
  /\ get(last.pre, last.dst) = Ok(<<1>>)
  /\ get(last.pre, last.src) # Ok(<<1>>)
  /\ get(last.pre, last.src) # Ok(<<last.pre.default_value>>)
  /\ ~last.res.ok

\* The coordinates inside the extent of g.
CellsOf(g) == {p \in CoordsOf(g) : InGrid(g, p)}

Minus(p, q) == <<p[1] - q[1], p[2] - q[2]>>

\* The sub-grid or region of sub_rows x sub_cols cells has cells and is no
\* larger than g.
Fits(g, sub_rows, sub_cols) ==
  /\ 1 <= sub_rows /\ sub_rows <= rows(g)
  /\ 1 <= sub_cols /\ sub_cols <= cols(g)

\* C11: stamp_subgrid(dst, sub), with dst in bounds and sub no larger than the
\* grid, copies every cell (x, y) of sub to the cell (dst.x + x, dst.y + y)
\* of the grid when that coordinate is inside the grid, and leaves every
\* other cell of the grid unchanged.
C11_StampSubgrid ==
  (/\ last.op = "stamp_subgrid"
   /\ InGrid(last.pre, last.dst)
   /\ Fits(last.pre, rows(last.sub), cols(last.sub))) =>
    \A p \in CellsOf(last.pre) :
      get(grid, p) = IF InGrid(last.sub, Minus(p, last.dst))
                       THEN get(last.sub, Minus(p, last.dst))
                     ELSE get(last.pre, p)

\* C12: stamp_subgrid(dst, sub) returns SubgridOverflow when sub has more
\* columns or more rows than the grid, otherwise OutOfGrid when dst is out of
\* bounds, and otherwise Ok, also when part of the stamped region falls
\* outside the grid; on either error no cell of the grid changes.
C12_StampResult ==
  last.op = "stamp_subgrid" =>
    /\ last.res =
         IF cols(last.sub) > cols(last.pre) \/ rows(last.sub) > rows(last.pre)
           THEN Err(SubgridOverflow)
         ELSE IF ~InGrid(last.pre, last.dst) THEN Err(OutOfGrid)
         ELSE Ok(<<>>)
    /\ ~last.res.ok => grid = last.pre

\* C12 witness: a stamp returned Ok although a cell of the sub-grid had its
\* destination outside the grid.
C12_Witness ==
  /\ last.op = "stamp_subgrid" /\ last.res.ok
  /\ \E q \in CellsOf(last.sub) : ~InGrid(last.pre, Plus(last.dst, q))

\* C12, the other two outcomes: a sub-grid too large stamped at a dst out of
\* bounds, and a fitting sub-grid stamped at a dst out of bounds.
C12_WitnessOverflow ==
  /\ last.op = "stamp_subgrid" /\ last.res = Err(SubgridOverflow)
  /\ ~InGrid(last.pre, last.dst)
  /\ \E i \in 1 .. Len(last.sub.cells) :
       last.sub.cells[i] # last.pre.default_value

\* The coordinates (origin.x + x, origin.y + y) with 0 <= x < sub_cols and
\* 0 <= y < sub_rows.
Region(origin, sub_rows, sub_cols) ==
  {Plus(origin, q) : q \in (0 .. (sub_cols - 1)) \X (0 .. (sub_rows - 1))}

\* C13: for an in-bounds origin and a region (h, w) no larger than the grid,
\* s = get_subgrid(origin, h, w) followed by stamp_subgrid(origin, s) on a
\* grid of the same shape makes that grid's region at origin equal to the
\* region of the grid s was taken from; stamped back onto the grid it was
\* taken from, s leaves every cell as it was.
C13_RoundTrip ==
  (/\ last.op \in {"stamp_onto", "stamp_back"}
   /\ InGrid(last.pre, last.src)
   /\ Fits(last.pre, last.frame_size[1], last.frame_size[2])) =>
    /\ last.res.ok
    /\ last.op = "stamp_onto" =>
         \A p \in Region(last.src, last.frame_size[1], last.frame_size[2])
                    \cap CellsOf(last.pre) :
           get(last.out, p) = get(last.pre, p)
    /\ last.op = "stamp_back" => grid = last.pre

\* C14: get_subgrid(origin, rows, cols), with origin in bounds and rows and
\* cols not exceeding the grid's, returns a new grid of rows x cols cells in
\* which every cell (x, y) equals the grid's cell (origin.x + x, origin.y + y)
\* when that coordinate is inside the grid and the grid's default value
\* otherwise; the grid itself is unchanged.
C14_GetSubgrid ==
  (/\ last.op = "get_subgrid"
   /\ InGrid(last.pre, last.src)
   /\ Fits(last.pre, last.frame_size[1], last.frame_size[2])) =>
    /\ last.res.ok
    /\ grid = last.pre
    /\ LET s == last.res.ret[1]
       IN  /\ s.frame_size = last.frame_size
           /\ size(s) = last.frame_size[1] * last.frame_size[2]
           /\ \A q \in (0 .. (last.frame_size[2] - 1))
                         \X (0 .. (last.frame_size[1] - 1)) :
                get(s, q) = IF InGrid(last.pre, Plus(last.src, q))
                              THEN get(last.pre, Plus(last.src, q))
                            ELSE Ok(<<last.pre.default_value>>)

\* C15: fill_subgrid(origin, (rows, cols), v), with origin in bounds and the
\* region no larger than the grid, sets to v every cell of the grid inside
\* the rectangle of the region at origin, leaves every cell outside it
\* unchanged, and returns a grid of the region's dimensions whose cells all
\* hold the grid's default value.
C15_FillSubgrid ==
  (/\ last.op = "fill_subgrid"
   /\ InGrid(last.pre, last.dst)
   /\ Fits(last.pre, last.frame_size[1], last.frame_size[2])) =>
    /\ last.res = Ok(<<new(last.frame_size, last.pre.default_value).grid>>)
    /\ \A p \in CellsOf(last.pre) :
         get(grid, p) =
           IF p \in Region(last.dst, last.frame_size[1], last.frame_size[2])
             THEN Ok(<<last.value>>)
           ELSE get(last.pre, p)

\* C16: on every grid with positive rows and cols, enumerate() yields
\* rows * cols coordinates, each in bounds, no two equal, together the whole
\* coordinate rectangle, the k-th of them addressing the k-th cell of
\* get_flatten_grid(); enumerate_with_value() yields the same coordinates,
\* each with the value get returns at it.
C16_Enumerate ==
  /\ (/\ last.op = "enumerate"
      /\ rows(last.pre) >= 1 /\ cols(last.pre) >= 1) =>
       LET e == last.res.ret[1]
       IN  /\ Len(e) = rows(last.pre) * cols(last.pre)
           /\ \A k \in 1 .. Len(e) : InGrid(last.pre, e[k])
           /\ \A k \in 1 .. Len(e) : \A l \in 1 .. Len(e) :
                e[k] = e[l] => k = l
           /\ {e[k] : k \in 1 .. Len(e)} = CellsOf(last.pre)
           /\ \A k \in 1 .. Len(e) :
                get(last.pre, e[k]) = Ok(<<get_flatten_grid(last.pre)[k]>>)
  /\ (/\ last.op = "enumerate_with_value"
      /\ rows(last.pre) >= 1 /\ cols(last.pre) >= 1) =>
       LET e == last.res.ret[1]
       IN  /\ Len(e) = Len(enumerate(last.pre))
           /\ \A k \in 1 .. Len(e) :
                /\ <<e[k][1], e[k][2]>> = enumerate(last.pre)[k]
                /\ get(last.pre, <<e[k][1], e[k][2]>>) = Ok(<<e[k][3]>>)

\* The grid of test_get_row.
RowTestGrid == new_from_vector(<<2, 2>>, RowTestVector).grid

\* C17: get_row(i) returns, in order, get((i, 0)), get((i, 1)), ... and
\* get_col(j) returns get((0, j)), get((1, j)), ..., so that
\* get_row(i)[j] = get_col(j)[i] = get((i, j)) whenever both calls succeed
\* (on a grid with positive rows and cols: with negative dimensions both
\* return empty vectors); on the grid built from [1, 2, 3, 4] with dimensions
\* (2, 2), get_row(1) is [3, 4] and get_col(1) is [2, 4].
C17_RowsAndCols ==
  /\ (last.op = "get_row" /\ last.res.ok) =>
       LET row == last.res.ret[1]
       IN  /\ \A j \in 1 .. Len(row) :
                Ok(<<row[j]>>) = get(last.pre, <<last.idx, j - 1>>)
           /\ \A j \in IndexesOf(last.pre) :
                (/\ get_col(last.pre, j).ok
                 /\ rows(last.pre) >= 1 /\ cols(last.pre) >= 1) =>
                  LET col == get_col(last.pre, j).ret[1]
                  IN  /\ j + 1 \in 1 .. Len(row)
                      /\ last.idx + 1 \in 1 .. Len(col)
                      /\ row[j + 1] = col[last.idx + 1]
                      /\ Ok(<<row[j + 1]>>) = get(last.pre, <<last.idx, j>>)
  /\ (last.op = "get_col" /\ last.res.ok) =>
       LET col == last.res.ret[1]
       IN  \A i \in 1 .. Len(col) :
             Ok(<<col[i]>>) = get(last.pre, <<i - 1, last.idx>>)
  /\ (last.op = "get_row" /\ last.pre = RowTestGrid /\ last.idx = 1) =>
       last.res = Ok(<<<<3, 4>>>>)
  /\ (last.op = "get_col" /\ last.pre = RowTestGrid /\ last.idx = 1) =>
       last.res = Ok(<<<<2, 4>>>>)

\* C17 witness: get_col(1) returned on the grid built from [1, 2, 3, 4].
C17_Witness ==
  /\ last.op = "get_col" /\ last.pre = RowTestGrid /\ last.idx = 1
  /\ last.res.ok

\* C17, the general case: get_row returned several values, not all equal, on
\* a grid that is not square.
C17_WitnessRow ==
  /\ last.op = "get_row" /\ last.res.ok
  /\ rows(last.pre) # cols(last.pre)
  /\ Len(last.res.ret[1]) > 1
  /\ last.res.ret[1][1] # last.res.ret[1][2]

\* C18: on every grid with positive rows and cols, get_row(i) returns Ok
\* exactly when 0 <= i < rows() and then holds cols() values, get_col(j)
\* returns Ok exactly when 0 <= j < cols() and then holds rows() values, and
\* any other index yields OutOfGrid.
C18_RowColBounds ==
  /\ (/\ last.op = "get_row"
      /\ rows(last.pre) >= 1 /\ cols(last.pre) >= 1) =>
       IF 0 <= last.idx /\ last.idx < rows(last.pre)
         THEN last.res.ok /\ Len(last.res.ret[1]) = cols(last.pre)
       ELSE last.res = Err(OutOfGrid)
  /\ (/\ last.op = "get_col"
      /\ rows(last.pre) >= 1 /\ cols(last.pre) >= 1) =>
       IF 0 <= last.idx /\ last.idx < cols(last.pre)
         THEN last.res.ok /\ Len(last.res.ret[1]) = rows(last.pre)
       ELSE last.res = Err(OutOfGrid)

\* C19: for every origin and every region size, a region with a zero
\* dimension included, fill_subgrid and get_subgrid return Ok, OutOfGrid or
\* SubgridOverflow and never panic.
C19_NoPanic ==
  last.op \in {"fill_subgrid", "get_subgrid"} =>
    \/ last.res.ok
    \/ last.res = Err(OutOfGrid)
    \/ last.res = Err(SubgridOverflow)

\* C20: every call made on a grid, whether it succeeds or fails, leaves
\* rows(), cols() and the default value as they were when the grid was
\* constructed, and size() = rows() * cols().
C20_ShapeKept ==
  [][/\ grid' # NoGrid => size(grid') = rows(grid') * cols(grid')
     /\ (Constructed /\ grid' # NoGrid) =>
          /\ rows(grid') = rows(grid)
          /\ cols(grid') = cols(grid)
          /\ grid'.default_value = grid.default_value]_vars

\* C20 witness: a fill_subgrid changed cells of a grid that is not square.
C20_Witness ==
  /\ last.op = "fill_subgrid" /\ last.res.ok
  /\ grid # last.pre
  /\ rows(grid) # cols(grid)

\* C21: new_from_vector makes the first element of the vector the grid's
\* default value, and no later step changes it: every successful mov or
\* mov_to to another coordinate leaves it in the source cell, and
\* get_subgrid holds it in every cell whose coordinate is outside the grid.
C21_DefaultIsFirst ==
  /\ [](/\ (last.op = "new_from_vector" /\ last.res.ok) =>
             grid.default_value = last.vec[1]
        /\ (last.op = "mov" /\ last.res.ok /\ last.dst # last.src) =>
             get(grid, last.src) = Ok(<<last.pre.default_value>>)
        /\ (last.op = "mov_to" /\ last.res.ok) =>
             get(grid, last.src) = Ok(<<last.pre.default_value>>)
        /\ (last.op = "get_subgrid" /\ last.res.ok) =>
             \A q \in CellsOf(last.res.ret[1]) :
               ~InGrid(last.pre, Plus(last.src, q)) =>
                 get(last.res.ret[1], q) = Ok(<<last.pre.default_value>>))
  /\ [][(Constructed /\ grid' # NoGrid) =>
          grid'.default_value = grid.default_value]_vars

\* C21 witness: a mov to another coordinate took a value that is not the
\* default out of its source, on a grid whose default is not 0.
C21_Witness ==
  /\ last.op = "mov" /\ last.res.ok /\ last.dst # last.src
  /\ last.pre.default_value # 0
  /\ get(last.pre, last.src) # Ok(<<last.pre.default_value>>)

\* C21, get_subgrid: a returned sub-grid has a cell outside a grid whose
\* default is not 0 and whose cells do not all hold the default.
C21_WitnessSubgrid ==
  /\ last.op = "get_subgrid" /\ last.res.ok
  /\ last.pre.default_value # 0
  /\ \E i \in 1 .. Len(last.pre.cells) :
       last.pre.cells[i] # last.pre.default_value
  /\ \E q \in CellsOf(last.res.ret[1]) : ~InGrid(last.pre, Plus(last.src, q))

\* C22: with an empty rule list, stamp_subgrid_with_rules(dst, sub, rules)
\* returns the result of stamp_subgrid(dst, sub) and leaves the grid in the
\* state stamp_subgrid(dst, sub) leaves it in, for every dst and every sub.
C22_StampWithNoRules ==
  (last.op = "stamp_subgrid_with_rules" /\ last.rules = <<>>) =>
    /\ last.res = stamp_subgrid(last.pre, last.dst, last.sub).res
    /\ grid = stamp_subgrid(last.pre, last.dst, last.sub).grid

\* The cells of sub_grid that a stamp visits, in enumeration order.
Visited(sub_grid) ==
  SelectSeq(enumerate(sub_grid), LAMBDA c : get(sub_grid, c).ok)

\* The index of the first visited cell at which the stamp of last stops, its
\* destination being outside the grid or rejected by a rule; 0 if there is
\* none.
FirstStop ==
  LET v == Visited(last.sub)
      stops == {k \in 1 .. Len(v) :
                  \/ ~InGrid(last.pre, Plus(last.dst, v[k]))
                  \/ FirstFail(last.rules, Plus(last.dst, v[k]),
                               get(last.pre, Plus(last.dst, v[k])).ret[1]) # 0}
  IN  IF stops = {} THEN 0
      ELSE CHOOSE k \in stops : \A j \in stops : k <= j

NonDefault(g) ==
  Cardinality({i \in 1 .. Len(g.cells) : g.cells[i] # g.default_value})

\* C30: no call of mov, mov_with_rules, mov_to or mov_to_with_rules,
\* successful or failing, increases the number of cells that hold a value
\* other than the default value.
C30_MovesDoNotAdd ==
  [][last'.op \in {"mov", "mov_with_rules", "mov_to", "mov_to_with_rules"} =>
       NonDefault(grid') <= NonDefault(grid)]_vars

\* C30 witness: a mov onto an occupied cell left one cell fewer holding a
\* value other than the default value.
C30_Witness ==
  /\ last.op = "mov" /\ last.res.ok
  /\ NonDefault(grid) < NonDefault(last.pre)

\* C26: on every grid with positive rows and cols, the index x * rows + y of
\* get, get_mut and set maps the coordinates 0 <= x < cols, 0 <= y < rows
\* one-to-one onto 0 .. rows * cols - 1; get and get_mut never return
\* ValueNotFound and set never skips its write.
C26_IndexBijection ==
  /\ (Constructed /\ rows(grid) >= 1 /\ cols(grid) >= 1) =>
       /\ \A p \in CellsOf(grid) :
            /\ get_mut(grid, p).ok
            /\ get_mut(grid, p).ret[1] \in 0 .. (rows(grid) * cols(grid) - 1)
       /\ \A p \in CellsOf(grid) : \A q \in CellsOf(grid) :
            get_mut(grid, p) = get_mut(grid, q) => p = q
       /\ \A i \in 0 .. (rows(grid) * cols(grid) - 1) :
            \E p \in CellsOf(grid) : get_mut(grid, p) = Ok(<<i>>)
  /\ last.op \in {"get", "get_mut"} => last.res # Err(ValueNotFound)
  /\ (last.op = "set" /\ last.res.ok) =>
       /\ get_mut(last.pre, last.dst).ok
       /\ grid.cells[get_mut(last.pre, last.dst).ret[1] + 1] = last.value

\* C26 witness: get_mut returned a cell of the second column of a grid that
\* is not square.
C26_Witness ==
  /\ last.op = "get_mut" /\ last.res.ok
  /\ last.src[1] >= 1
  /\ rows(last.pre) # cols(last.pre)

\* C29: every grid that Grid::new or Grid::new_from_vector returns, whatever
\* the dimensions passed, has rows() >= 1 and cols() >= 1, and at least one
\* coordinate passes its bounds check.
C29_PositiveDims ==
  (last.op \in {"new", "new_from_vector"} /\ last.res.ok) =>
    /\ rows(grid) >= 1
    /\ cols(grid) >= 1
    /\ \E p \in CoordsOf(grid) : check_grid_bounds(grid, p).ok

\* ------------------------------------------------- properties of lib.rs
\* The coordinate p lies inside the extent of the lib.rs grid g:
\* 0 <= x < rows, 0 <= y < cols.
LibInGrid(g, p) ==
  /\ 0 <= p[1] /\ p[1] < g.rows
  /\ 0 <= p[2] /\ p[2] < g.cols

\* The coordinates of the cells of the lib.rs grid g.
LibCellsOf(g) == {p \in LibCoordsOf(g) : LibInGrid(g, p)}

\* The unit offset of each direction in lib.rs, as (row, column).
LibOffset(d) ==
  CASE d = "Right" -> <<0, 1>>
    [] d = "Left" -> <<0, -1>>
    [] d = "Up" -> <<-1, 0>>
    [] d = "Down" -> <<1, 0>>

\* C27: in lib.rs, on every grid with positive rows and cols, square or not,
\* every in-bounds coordinate addresses an existing cell and distinct
\* coordinates address distinct cells; get, get_mut and the Index operators
\* never panic on an in-bounds coordinate; and set(p, v) changes what get
\* returns at no coordinate other than p.
C27_LibAddressing ==
  /\ (LibConstructed /\ lib_rows(grid) >= 1 /\ lib_cols(grid) >= 1) =>
       /\ \A p \in LibCellsOf(grid) :
            lib_cell_index(grid, p) \in 0 .. (lib_size(grid) - 1)
       /\ \A p \in LibCellsOf(grid) : \A q \in LibCellsOf(grid) :
            lib_cell_index(grid, p) = lib_cell_index(grid, q) => p = q
  /\ (/\ last.op \in {"get", "get_mut", "index", "index_mut"}
      /\ LibInGrid(last.pre, last.src)) => last.res.ok
  /\ (last.op = "set" /\ LibInGrid(last.pre, last.dst)) =>
       \A q \in LibCellsOf(last.pre) \ {last.dst} :
         lib_get(grid, q) = lib_get(last.pre, q)

\* C28: in lib.rs, on a grid with positive rows and cols, enumerate() yields
\* rows * cols coordinates, all different and all in bounds, and the k-th of
\* them addresses the k-th cell: get of it returns the k-th element of
\* get_flatten_grid().
C28_LibEnumerate ==
  (last.op = "enumerate" /\ lib_rows(grid) >= 1 /\ lib_cols(grid) >= 1) =>
    LET coords == last.res.ret[1]
    IN  /\ Len(coords) = lib_rows(grid) * lib_cols(grid)
        /\ \A i \in 1 .. Len(coords) : \A j \in 1 .. Len(coords) :
             coords[i] = coords[j] => i = j
        /\ \A k \in 1 .. Len(coords) :
             /\ LibInGrid(grid, coords[k])
             /\ lib_get(grid, coords[k]) = Ok(<<lib_get_flatten_grid(grid)[k]>>)

\* C24: in lib.rs, mov_to(p, d) at an in-bounds p moves the value at p to
\* p + offset(d), with offset(Right) = (0, 1), offset(Left) = (0, -1),
\* offset(Up) = (-1, 0) and offset(Down) = (1, 0), and leaves the grid's
\* initial value at p; when p + offset(d) is out of bounds it returns
\* OutOfGrid and every cell is unchanged.
C24_LibMovTo ==
  (last.op = "mov_to" /\ LibInGrid(last.pre, last.src)) =>
    LET dest == Plus(last.src, LibOffset(last.dir))
    IN  IF LibInGrid(last.pre, dest)
          THEN /\ last.res = Ok(<<>>)
               /\ lib_get(grid, dest) = lib_get(last.pre, last.src)
               /\ lib_get(grid, dest).ok
               /\ lib_get(grid, last.src) = Ok(<<last.pre.initial_value>>)
               /\ \A q \in LibCellsOf(grid) \ {last.src, dest} :
                    lib_get(grid, q) = lib_get(last.pre, q)
        ELSE /\ last.res = Err(OutOfGrid)
             /\ grid = last.pre

\* C23: in lib.rs, fill_grid(v) sets every cell to v and changes neither the
\* dimensions, nor size(), nor the initial value, which no later step changes
\* either: every later successful mov to another coordinate still leaves the
\* value given at construction in its source.
C23_LibFillGrid ==
  /\ [](/\ last.op = "fill_grid" =>
             /\ \A i \in 1 .. lib_size(grid) :
                  lib_get_flatten_grid(grid)[i] = last.value
             /\ lib_rows(grid) = lib_rows(last.pre)
             /\ lib_cols(grid) = lib_cols(last.pre)
             /\ lib_size(grid) = lib_size(last.pre)
             /\ grid.initial_value = last.pre.initial_value
        /\ (last.op = "mov" /\ last.res.ok /\ last.dst # last.src) =>
             lib_get(grid, last.src) = Ok(<<last.pre.initial_value>>))
  /\ [][(LibConstructed /\ grid' # LibNoGrid) =>
          grid'.initial_value = grid.initial_value]_vars

====
